---- MODULE Spec2Model ----
(***************************************************************************)
(* A model of github.com/notjustmoney/errors: the ErrorBuilder value type, *)
(* its setters and terminal operations, the *Error nodes they allocate,    *)
(* the chain walk (recursive / recursiveAttr) and the accessors.           *)
(*                                                                         *)
(* Go values are modelled with their storage: a map is a reference into    *)
(* the heap `maps`, a slice is a (backing array, len, cap) triple into the *)
(* heap `arrays`, a *Error is an index into the heap `nodes`.  A *string   *)
(* is modelled by value (NIL or the string): every assignment to a *string *)
(* field in the source takes the address of a fresh variable, so no two    *)
(* fields ever share a string cell.                                        *)
(*                                                                         *)
(* ret is the last call made and what it returned; built records, for each *)
(* node, the terminal operation that allocated it, its arguments and what  *)
(* the builder read as at that moment.                                     *)
(***************************************************************************)
EXTENDS Integers, Sequences, FiniteSets, TLC

VARIABLES builders, nodes, maps, arrays, nextUUID, clock, ret, built

vars == <<builders, nodes, maps, arrays, nextUUID, clock, ret, built>>

(***************************************************************************)
(* Bounds of the model.                                                    *)
(***************************************************************************)
\* builder values kept (every value a setter or newBuilder returned)
MaxBuilders == 3
\* *Error nodes allocated
MaxNodes == 3
\* identifiers uuid.NewString() hands out
MaxUUID == 3
\* readings of time.Now()
MaxClock == 3

(***************************************************************************)
(* Values.                                                                 *)
(***************************************************************************)
\* the nil *string
NIL == "<nil>"
\* strings call sites pass in
Str == {"x", "y"}
\* the identifiers uuid.NewString() returns, in the order it returns them
UUIDs == <<"uuid-1", "uuid-2", "uuid-3", "uuid-4", "uuid-5", "uuid-6", "uuid-7", "uuid-8">>
\* the zero time.Time
ZeroTime == 0
\* a text is a sequence of tokens, so that texts concatenate; the nil *string
\* of the message field is kept apart from the empty text
NoMessage == <<"<nil>">>
Separator == ": "

\* error interface values: nil, a *Error, a foreign sentinel, the result of
\* fmt.Errorf (its text, and the %w operand or nil), the result of errors.Join
NilErr == <<"nil">>
LibErr(n) == <<"lib", n>>
SentinelErr(name) == <<"sentinel", name>>
FmtErr(text, w) == <<"fmt", text, w>>
JoinErr(errs) == <<"join", errs>>
Kind(err) == err[1]
Sentinels == {"ErrExist", "AnError"}

ZeroHelp == [Description |-> "", URL |-> ""]
ZeroResource == [Type |-> "", Name |-> "", Owner |-> "", Description |-> ""]
ZeroRetry == [Delay |-> 0]
ZeroLocalization == [Locale |-> "", Message |-> ""]
ZeroQuotaViolation == [Subject |-> "", Description |-> ""]
ZeroPreconditionViolation == [Type |-> "", Subject |-> "", Description |-> ""]
ZeroFieldViolation == [Field |-> "", Description |-> ""]

(***************************************************************************)
(* Slices and maps.                                                        *)
(***************************************************************************)
\* the nil slice; arr = 0 is "no backing array"
NilSlice == [arr |-> 0, len |-> 0, cap |-> 0]

\* the elements a slice reads: s[0:len(s)] of its backing array
SliceElems(as, s) == IF s.len = 0 THEN <<>> ELSE SubSeq(as[s.arr], 1, s.len)

\* the capacity growslice picks for a slice of capacity old that must hold need
GrowCap(old, need) == IF need > 2 * old THEN need ELSE 2 * old

\* append(s, v): writes in place when len < cap, else moves to a new array.
\* Yields the new slice and the heap after the call.
AppendSlice(as, s, v, zero) ==
    IF s.len < s.cap
    THEN [s  |-> [s EXCEPT !.len = @ + 1],
          as |-> [as EXCEPT ![s.arr][s.len + 1] = v]]
    ELSE LET c == GrowCap(s.cap, s.len + 1)
             a == [j \in 1..c |-> IF j <= s.len THEN as[s.arr][j]
                                  ELSE IF j = s.len + 1 THEN v ELSE zero]
         IN  [s  |-> [arr |-> Len(as) + 1, len |-> s.len + 1, cap |-> c],
              as |-> Append(as, a)]

\* the nil map is 0; a map value is otherwise a reference into maps
EmptyMap == << >>
MapSet(m, k, v) == [x \in (DOMAIN m) \cup {k} |-> IF x = k THEN v ELSE m[x]]
MapElems(ms, m) == IF m = 0 THEN EmptyMap ELSE ms[m]

(***************************************************************************)
(* The builder.                                                            *)
(***************************************************************************)
newBuilder(now) ==
    [err |-> NilErr, message |-> NoMessage,
     reason |-> NIL, domain |-> NIL, metadata |-> 0,
     quotaViolations |-> NilSlice, preconditionViolations |-> NilSlice,
     fieldViolations |-> NilSlice,
     userID |-> NIL, tenantID |-> NIL,
     trace |-> NIL, span |-> NIL, requestID |-> NIL, tags |-> NilSlice,
     time |-> now,
     help |-> ZeroHelp, resource |-> ZeroResource,
     localizations |-> NilSlice, retry |-> ZeroRetry,
     stackTrace |-> <<>>]

\* what a builder (or node) value reads as: maps and slices dereferenced
View(e, ms, as) ==
    [e EXCEPT !.metadata = MapElems(ms, e.metadata),
              !.quotaViolations = SliceElems(as, e.quotaViolations),
              !.preconditionViolations = SliceElems(as, e.preconditionViolations),
              !.fieldViolations = SliceElems(as, e.fieldViolations),
              !.tags = SliceElems(as, e.tags),
              !.localizations = SliceElems(as, e.localizations)]

Call(op, recv, arg, val) == [op |-> op, recv |-> recv, arg |-> arg, val |-> val, panic |-> FALSE]

\* a setter returns its (modified) receiver copy: one more builder value
Return(op, i, arg, e) ==
    /\ builders' = Append(builders, e)
    /\ ret' = Call(op, i, arg, Len(builders) + 1)

IsBuilder(i) == i \in 1..Len(builders) /\ Len(builders) < MaxBuilders

NewBuilder ==
    /\ Len(builders) < MaxBuilders
    /\ clock < MaxClock
    /\ builders' = Append(builders, newBuilder(clock))
    /\ clock' = clock + 1
    /\ ret' = Call("newBuilder", 0, <<>>, Len(builders) + 1)
    /\ UNCHANGED <<nodes, built, maps, arrays, nextUUID>>

ErrorBuilder_Reason(i, reason) ==
    /\ IsBuilder(i)
    /\ Return("ErrorBuilder.Reason", i, <<reason>>, [builders[i] EXCEPT !.reason = reason])
    /\ UNCHANGED <<nodes, built, maps, arrays, nextUUID, clock>>

ErrorBuilder_Domain(i, domain) ==
    /\ IsBuilder(i)
    /\ Return("ErrorBuilder.Domain", i, <<domain>>, [builders[i] EXCEPT !.domain = domain])
    /\ UNCHANGED <<nodes, built, maps, arrays, nextUUID, clock>>

ErrorBuilder_WithMetadata(i, key, value) ==
    /\ IsBuilder(i)
    /\ LET e == builders[i]
           fresh == e.metadata = 0
           m == IF fresh THEN Len(maps) + 1 ELSE e.metadata
           ms == IF fresh THEN Append(maps, EmptyMap) ELSE maps
       IN  /\ maps' = [ms EXCEPT ![m] = MapSet(@, key, value)]
           /\ Return("ErrorBuilder.WithMetadata", i, <<key, value>>, [e EXCEPT !.metadata = m])
    /\ UNCHANGED <<nodes, built, arrays, nextUUID, clock>>

ErrorBuilder_WithQuotaViolation(i, subject, description) ==
    /\ IsBuilder(i)
    /\ LET e == builders[i]
           v == [Subject |-> subject, Description |-> description]
           r == AppendSlice(arrays, e.quotaViolations, v, ZeroQuotaViolation)
       IN  /\ arrays' = r.as
           /\ Return("ErrorBuilder.WithQuotaViolation", i, <<v>>, [e EXCEPT !.quotaViolations = r.s])
    /\ UNCHANGED <<nodes, built, maps, nextUUID, clock>>

ErrorBuilder_WithPreconditionViolation(i, subject, description) ==
    /\ IsBuilder(i)
    /\ LET e == builders[i]
           v == [Type |-> "", Subject |-> subject, Description |-> description]
           r == AppendSlice(arrays, e.preconditionViolations, v, ZeroPreconditionViolation)
       IN  /\ arrays' = r.as
           /\ Return("ErrorBuilder.WithPreconditionViolation", i, <<v>>,
                     [e EXCEPT !.preconditionViolations = r.s])
    /\ UNCHANGED <<nodes, built, maps, nextUUID, clock>>

ErrorBuilder_WithFieldViolation(i, field, description) ==
    /\ IsBuilder(i)
    /\ LET e == builders[i]
           v == [Field |-> field, Description |-> description]
           r == AppendSlice(arrays, e.fieldViolations, v, ZeroFieldViolation)
       IN  /\ arrays' = r.as
           /\ Return("ErrorBuilder.WithFieldViolation", i, <<v>>, [e EXCEPT !.fieldViolations = r.s])
    /\ UNCHANGED <<nodes, built, maps, nextUUID, clock>>

ErrorBuilder_UserID(i, userID) ==
    /\ IsBuilder(i)
    /\ Return("ErrorBuilder.UserID", i, <<userID>>, [builders[i] EXCEPT !.userID = userID])
    /\ UNCHANGED <<nodes, built, maps, arrays, nextUUID, clock>>

ErrorBuilder_TenantID(i, tenantID) ==
    /\ IsBuilder(i)
    /\ Return("ErrorBuilder.TenantID", i, <<tenantID>>, [builders[i] EXCEPT !.tenantID = tenantID])
    /\ UNCHANGED <<nodes, built, maps, arrays, nextUUID, clock>>

ErrorBuilder_Trace(i, trace) ==
    /\ IsBuilder(i)
    /\ Return("ErrorBuilder.Trace", i, <<trace>>, [builders[i] EXCEPT !.trace = trace])
    /\ UNCHANGED <<nodes, built, maps, arrays, nextUUID, clock>>

ErrorBuilder_Span(i, span) ==
    /\ IsBuilder(i)
    /\ Return("ErrorBuilder.Span", i, <<span>>, [builders[i] EXCEPT !.span = span])
    /\ UNCHANGED <<nodes, built, maps, arrays, nextUUID, clock>>

ErrorBuilder_RequestID(i, requestID) ==
    /\ IsBuilder(i)
    /\ Return("ErrorBuilder.RequestID", i, <<requestID>>, [builders[i] EXCEPT !.requestID = requestID])
    /\ UNCHANGED <<nodes, built, maps, arrays, nextUUID, clock>>

ErrorBuilder_WithTag(i, tag) ==
    /\ IsBuilder(i)
    /\ LET e == builders[i]
           r == AppendSlice(arrays, e.tags, tag, "")
       IN  /\ arrays' = r.as
           /\ Return("ErrorBuilder.WithTag", i, <<tag>>, [e EXCEPT !.tags = r.s])
    /\ UNCHANGED <<nodes, built, maps, nextUUID, clock>>

ErrorBuilder_Help(i, help) ==
    /\ IsBuilder(i)
    /\ Return("ErrorBuilder.Help", i, <<help>>, [builders[i] EXCEPT !.help = help])
    /\ UNCHANGED <<nodes, built, maps, arrays, nextUUID, clock>>

ErrorBuilder_Resource(i, resource) ==
    /\ IsBuilder(i)
    /\ Return("ErrorBuilder.Resource", i, <<resource>>, [builders[i] EXCEPT !.resource = resource])
    /\ UNCHANGED <<nodes, built, maps, arrays, nextUUID, clock>>

ErrorBuilder_WithLocalization(i, localization) ==
    /\ IsBuilder(i)
    /\ LET e == builders[i]
           r == AppendSlice(arrays, e.localizations, localization, ZeroLocalization)
       IN  /\ arrays' = r.as
           /\ Return("ErrorBuilder.WithLocalization", i, <<localization>>, [e EXCEPT !.localizations = r.s])
    /\ UNCHANGED <<nodes, built, maps, nextUUID, clock>>

ErrorBuilder_Retry(i, retry) ==
    /\ IsBuilder(i)
    /\ Return("ErrorBuilder.Retry", i, <<retry>>, [builders[i] EXCEPT !.retry = retry])
    /\ UNCHANGED <<nodes, built, maps, arrays, nextUUID, clock>>

(***************************************************************************)
(* The standard library's error functions, on the error values above.      *)
(***************************************************************************)
\* errors.Join: drops the nil errors, nil when none is left
RECURSIVE DropNil(_)
DropNil(errs) ==
    IF errs = <<>> THEN <<>>
    ELSE IF Head(errs) = NilErr THEN DropNil(Tail(errs))
    ELSE <<Head(errs)>> \o DropNil(Tail(errs))

ErrorsJoin(errs) == IF DropNil(errs) = <<>> THEN NilErr ELSE JoinErr(DropNil(errs))

\* errors.As(err, &child) with child a *Error: the first *Error met walking
\* err's Unwrap tree depth-first, 0 when there is none
RECURSIVE ErrorsAs(_)
\* a type assertion in place of errors.As: the cause itself when it is a *Error
ErrorsAsDirect(err) == IF Kind(err) = "lib" THEN err[2] ELSE 0

ErrorsAs(err) ==
    CASE Kind(err) = "lib" -> err[2]
      [] Kind(err) = "fmt" -> IF err[3] = NilErr THEN 0 ELSE ErrorsAs(err[3])
      [] Kind(err) = "join" ->
           LET hits == {j \in 1..Len(err[2]) : ErrorsAs(err[2][j]) # 0}
           IN  IF hits = {} THEN 0
               ELSE ErrorsAs(err[2][CHOOSE j \in hits : \A k \in hits : j <= k])
      [] OTHER -> 0

\* (*Error).Unwrap
Error_Unwrap(ns, n) == ns[n].err

\* errors.Is(err, target), which calls (*Error).Is on every *Error it meets
RECURSIVE ErrorsIs(_, _, _)
\* (*Error).Is
Error_Is(ns, n, err) == ErrorsIs(ns, ns[n].err, err) \/ LibErr(n) = err

ErrorsIs(ns, err, target) ==
    IF err = NilErr \/ target = NilErr THEN err = target
    ELSE \/ err = target
         \/ Kind(err) = "lib" /\ Error_Is(ns, err[2], target)
         \/ Kind(err) = "lib" /\ Error_Unwrap(ns, err[2]) # NilErr
                              /\ ErrorsIs(ns, Error_Unwrap(ns, err[2]), target)
         \/ Kind(err) = "fmt" /\ err[3] # NilErr /\ ErrorsIs(ns, err[3], target)
         \/ Kind(err) = "join" /\ \E j \in 1..Len(err[2]) : ErrorsIs(ns, err[2][j], target)

\* (*Error).Error, and the Error method of the foreign errors
RECURSIVE Error_Error(_, _)
RECURSIVE JoinText(_, _)
JoinText(ns, errs) ==
    IF Len(errs) = 1 THEN Error_Error(ns, errs[1])
    ELSE Error_Error(ns, errs[1]) \o <<"\n">> \o JoinText(ns, Tail(errs))

\* Error() writing the separator after every message
Error_ErrorSeparates(ns, err) ==
    CASE Kind(err) = "lib" ->
           LET e == ns[err[2]]
           IN  (IF e.message # NoMessage THEN e.message \o <<Separator>> ELSE <<>>)
               \o (IF e.err # NilErr THEN Error_Error(ns, e.err) ELSE <<>>)
      [] Kind(err) = "sentinel" -> <<err[2]>>
      [] Kind(err) = "fmt" -> err[2]
      [] Kind(err) = "join" -> JoinText(ns, err[2])

Error_Error(ns, err) ==
    CASE Kind(err) = "lib" ->
           LET e == ns[err[2]]
           IN  (IF e.message # NoMessage
                THEN e.message \o (IF e.err # NilErr THEN <<Separator>> ELSE <<>>)
                ELSE <<>>)
               \o (IF e.err # NilErr THEN Error_Error(ns, e.err) ELSE <<>>)
      [] Kind(err) = "sentinel" -> <<err[2]>>
      [] Kind(err) = "fmt" -> err[2]
      [] Kind(err) = "join" -> JoinText(ns, err[2])

\* fmt.Errorf(format, args...): format is a text without verbs, followed by
\* ": %w" when there is an operand w
FmtErrorf(ns, format, w) ==
    IF w = NilErr THEN FmtErr(<<format>>, NilErr)
    ELSE FmtErr(<<format, Separator>> \o Error_Error(ns, w), w)

(***************************************************************************)
(* Stack capture.                                                          *)
(***************************************************************************)
StackTraceMaxDepth == 50

\* one frame runtime.Caller reports, with what the filter reads off its file
Frame(file, function, line, isGoPkg, isThisPkg, isExamplePkg, isTestPkg) ==
    [file |-> file, function |-> function, line |-> line, isGoPkg |-> isGoPkg,
     isThisPkg |-> isThisPkg, isExamplePkg |-> isExamplePkg, isTestPkg |-> isTestPkg]

RECURSIVE captureFrom(_, _, _)
\* the capture that keeps the frames of this package
captureInternals(stack, i, frames) ==
    IF Len(frames) >= StackTraceMaxDepth \/ i > Len(stack) THEN frames
    ELSE LET f == stack[i]
         IN  IF f.function = NIL THEN frames
             ELSE IF ~f.isGoPkg
             THEN captureFrom(stack, i + 1,
                      Append(frames, [file |-> f.file, function |-> f.function, line |-> f.line]))
             ELSE captureFrom(stack, i + 1, frames)

\* the loop of newStacktrace from runtime.Caller(i - 1) on; a frame whose
\* function is NIL is one runtime.FuncForPC does not know
captureFrom(stack, i, frames) ==
    IF Len(frames) >= StackTraceMaxDepth \/ i > Len(stack) THEN frames
    ELSE LET f == stack[i]
         IN  IF f.function = NIL THEN frames
             ELSE IF ~f.isGoPkg /\ (~f.isThisPkg \/ f.isExamplePkg \/ f.isTestPkg)
             THEN captureFrom(stack, i + 1,
                      Append(frames, [file |-> f.file, function |-> f.function, line |-> f.line]))
             ELSE captureFrom(stack, i + 1, frames)

\* newStacktrace, called under the call stack `stack` (innermost call first)
newStacktrace(stack) == captureFrom(stack, 1, <<>>)

\* the call stack of a terminal operation called from user code
UserStack ==
    <<Frame("errors/stack_trace.go", "newStacktrace", 31, FALSE, TRUE, FALSE, FALSE),
      Frame("errors/builder.go", "ErrorBuilder.Error", 135, FALSE, TRUE, FALSE, FALSE),
      Frame("app/main.go", "run", 10, FALSE, FALSE, FALSE, FALSE),
      Frame("app/main.go", "main", 20, FALSE, FALSE, FALSE, FALSE),
      Frame("goroot/runtime/proc.go", "main", 250, TRUE, FALSE, FALSE, FALSE)>>
CallStacks == {UserStack}

(***************************************************************************)
(* Terminal operations.                                                    *)
(***************************************************************************)
\* lo.Slice(s, 0, len(s)): the empty slice when 0 >= len(s), else s[0:len(s)],
\* which shares s's backing array
loSlice(s) == IF 0 >= s.len THEN NilSlice ELSE [arr |-> s.arr, len |-> s.len, cap |-> s.cap]

\* ErrorBuilder.deepCopy: the copy, which holds a map allocated by lo.Assign
\* at the next free place of the heap ms.  requestID and time are not copied.
deepCopy(e, ms) ==
    [err |-> e.err, message |-> e.message,
     reason |-> e.reason, domain |-> e.domain, metadata |-> Len(ms) + 1,
     quotaViolations |-> loSlice(e.quotaViolations),
     preconditionViolations |-> loSlice(e.preconditionViolations),
     fieldViolations |-> loSlice(e.fieldViolations),
     userID |-> e.userID, tenantID |-> e.tenantID,
     trace |-> e.trace, span |-> e.span, requestID |-> NIL, tags |-> loSlice(e.tags),
     time |-> ZeroTime,
     help |-> e.help, resource |-> e.resource,
     localizations |-> loSlice(e.localizations), retry |-> e.retry,
     stackTrace |-> <<>>]

\* the heap of maps after deepCopy(e, ms)
deepCopyMaps(e, ms) == Append(ms, MapElems(ms, e.metadata))

CanAllocate == Len(nodes) < MaxNodes

\* a terminal operation that allocates the node e2 and returns it
ReturnNode(op, i, arg, e2) ==
    /\ nodes' = Append(nodes, e2)
    /\ maps' = deepCopyMaps(builders[i], maps)
    /\ ret' = Call(op, i, arg, LibErr(Len(nodes) + 1))
    /\ built' = Append(built, [op |-> op, arg |-> arg, from |-> View(builders[i], maps, arrays)])

\* a terminal operation that returns nil
ReturnNil(op, i, arg) ==
    /\ ret' = Call(op, i, arg, NilErr)
    /\ UNCHANGED <<nodes, built, maps, nextUUID>>

\* ErrorBuilder.wrap that does not store the cause
wrapDropsCause(e, err, ms, uuid, stack) ==
    [deepCopy(e, ms) EXCEPT !.span = IF @ = NIL THEN UUIDs[uuid] ELSE @,
                            !.stackTrace = newStacktrace(stack)]

\* ErrorBuilder.wrap with err # nil: the node it allocates
wrap(e, err, ms, uuid, stack) ==
    LET e2 == [deepCopy(e, ms) EXCEPT !.err = err]
    IN  [e2 EXCEPT !.span = IF @ = NIL THEN UUIDs[uuid] ELSE @,
                   !.stackTrace = newStacktrace(stack)]

\* ErrorBuilder.wrap without the nil check
wrapNeverNil(err) == FALSE

\* ErrorBuilder.wrap returns nil for the nil error
wrapReturnsNil(err) == err = NilErr

\* whether wrap draws an identifier
wrapDraws(e) == e.span = NIL

ErrorBuilder_Error(i, message, stack) ==
    /\ i \in 1..Len(builders) /\ CanAllocate
    /\ ReturnNode("ErrorBuilder.Error", i, <<message>>,
                  [deepCopy(builders[i], maps) EXCEPT !.message = <<message>>,
                                                      !.stackTrace = newStacktrace(stack)])
    /\ UNCHANGED <<builders, arrays, nextUUID, clock>>

ErrorBuilder_Errorf(i, format, w, stack) ==
    /\ i \in 1..Len(builders) /\ CanAllocate
    /\ ReturnNode("ErrorBuilder.Errorf", i, <<format, w>>,
                  [deepCopy(builders[i], maps) EXCEPT !.err = FmtErrorf(nodes, format, w),
                                                      !.stackTrace = newStacktrace(stack)])
    /\ UNCHANGED <<builders, arrays, nextUUID, clock>>

ErrorBuilder_Wrap(i, err, stack) ==
    /\ i \in 1..Len(builders)
    /\ IF wrapReturnsNil(err)
       THEN ReturnNil("ErrorBuilder.Wrap", i, <<err>>)
       ELSE /\ CanAllocate
            /\ wrapDraws(builders[i]) => nextUUID <= MaxUUID
            /\ ReturnNode("ErrorBuilder.Wrap", i, <<err>>,
                          wrap(builders[i], err, maps, nextUUID, stack))
            /\ nextUUID' = IF wrapDraws(builders[i]) THEN nextUUID + 1 ELSE nextUUID
    /\ UNCHANGED <<builders, arrays, clock>>

ErrorBuilder_Wrapf(i, err, format, w, stack) ==
    /\ i \in 1..Len(builders)
    /\ IF wrapReturnsNil(err)
       THEN ReturnNil("ErrorBuilder.Wrapf", i, <<err, format, w>>)
       ELSE /\ CanAllocate
            /\ wrapDraws(builders[i]) => nextUUID <= MaxUUID
            /\ ReturnNode("ErrorBuilder.Wrapf", i, <<err, format, w>>,
                          [wrap(builders[i], err, maps, nextUUID, stack)
                             EXCEPT !.message = FmtErrorf(nodes, format, w)[2]])
            /\ nextUUID' = IF wrapDraws(builders[i]) THEN nextUUID + 1 ELSE nextUUID
    /\ UNCHANGED <<builders, arrays, clock>>

ErrorBuilder_Join(i, errs, stack) ==
    /\ i \in 1..Len(builders)
    /\ IF wrapReturnsNil(ErrorsJoin(errs))
       THEN ReturnNil("ErrorBuilder.Join", i, <<errs>>)
       ELSE /\ CanAllocate
            /\ wrapDraws(builders[i]) => nextUUID <= MaxUUID
            /\ ReturnNode("ErrorBuilder.Join", i, <<errs>>,
                          wrap(builders[i], ErrorsJoin(errs), maps, nextUUID, stack))
            /\ nextUUID' = IF wrapDraws(builders[i]) THEN nextUUID + 1 ELSE nextUUID
    /\ UNCHANGED <<builders, arrays, clock>>


(***************************************************************************)
(* The chain walk and the accessors.  A receiver n is a place of the heap  *)
(* nodes, or 0 for the nil *Error.                                         *)
(***************************************************************************)
\* recursive(err, tap): the nodes tap is called on, in call order
RECURSIVE recursive(_, _)
recursive(ns, n) ==
    IF n = 0 THEN <<>>
    ELSE IF ns[n].err = NilErr THEN <<n>>
    ELSE IF ErrorsAs(ns[n].err) # 0 THEN <<n>> \o recursive(ns, ErrorsAs(ns[n].err))
    ELSE <<n>>

\* recursiveAttr without the descent: the receiver's own field
recursiveAttrOwn(ns, n, field, zero) == IF n = 0 THEN zero ELSE ns[n][field]

\* recursiveAttr(err, attr) for attr reading the field `field`
RECURSIVE recursiveAttr(_, _, _, _)
recursiveAttr(ns, n, field, zero) ==
    IF n = 0 THEN zero
    ELSE IF ns[n].err = NilErr THEN ns[n][field]
    ELSE IF ErrorsAs(ns[n].err) # 0 THEN recursiveAttr(ns, ErrorsAs(ns[n].err), field, zero)
    ELSE ns[n][field]

\* lo.Uniq that keeps the repeats
loUniqAll(seq, seen) == seq

\* lo.Uniq: first occurrences, in order
RECURSIVE loUniq(_, _)
loUniq(seq, seen) ==
    IF seq = <<>> THEN <<>>
    ELSE IF Head(seq) \in seen THEN loUniq(Tail(seq), seen)
    ELSE <<Head(seq)>> \o loUniq(Tail(seq), seen \cup {Head(seq)})

RECURSIVE appendTags(_, _, _)
appendTags(ns, as, visit) ==
    IF visit = <<>> THEN <<>>
    ELSE SliceElems(as, ns[Head(visit)].tags) \o appendTags(ns, as, Tail(visit))

Error_Message(ns, n) == recursiveAttr(ns, n, "message", NoMessage)
Error_Reason(ns, n) == recursiveAttr(ns, n, "reason", NIL)
Error_Domain(ns, n) == recursiveAttr(ns, n, "domain", NIL)
Error_Metadata(ns, ms, n) == MapElems(ms, recursiveAttr(ns, n, "metadata", 0))
Error_QuotaViolations(ns, as, n) ==
    SliceElems(as, recursiveAttr(ns, n, "quotaViolations", NilSlice))
Error_PreconditionViolations(ns, as, n) ==
    SliceElems(as, recursiveAttr(ns, n, "preconditionViolations", NilSlice))
Error_FieldViolations(ns, as, n) ==
    SliceElems(as, recursiveAttr(ns, n, "fieldViolations", NilSlice))
Error_Tags(ns, as, n) == loUniq(appendTags(ns, as, recursive(ns, n)), {})
Error_Help(ns, n) == recursiveAttr(ns, n, "help", ZeroHelp)
Error_Resource(ns, n) == recursiveAttr(ns, n, "resource", ZeroResource)
Error_Localizations(ns, as, n) ==
    SliceElems(as, recursiveAttr(ns, n, "localizations", NilSlice))
Error_Retry(ns, n) == recursiveAttr(ns, n, "retry", ZeroRetry)

\* the outcome of a call that reads or writes a field of the receiver itself:
\* a nil receiver is a nil pointer dereference
Panic == [panic |-> TRUE]

\* (*Error).Trace: the value returned, and the heap and the identifier
\* counter after the call
Error_Trace(ns, uuid, n) ==
    LET trace == recursiveAttr(ns, n, "trace", NIL)
    IN  IF trace # NIL THEN [panic |-> FALSE, val |-> trace, ns |-> ns, uuid |-> uuid]
        ELSE IF n = 0 THEN Panic
        ELSE [panic |-> FALSE, val |-> UUIDs[uuid],
              ns |-> [ns EXCEPT ![n].trace = UUIDs[uuid]], uuid |-> uuid + 1]

\* whether Trace draws an identifier
traceDraws(ns, n) == recursiveAttr(ns, n, "trace", NIL) = NIL

\* (*Error).Time
Error_Time(ns, clk, n) ==
    LET t == recursiveAttr(ns, n, "time", ZeroTime)
    IN  IF t # ZeroTime THEN [panic |-> FALSE, val |-> t, ns |-> ns, clk |-> clk]
        ELSE IF n = 0 THEN Panic
        ELSE [panic |-> FALSE, val |-> clk,
              ns |-> [ns EXCEPT ![n].time = clk], clk |-> clk + 1]

\* whether Time reads the clock
timeReads(ns, n) == recursiveAttr(ns, n, "time", ZeroTime) = ZeroTime

\* (*Error).Span and (*Error).RequestID read the receiver's own field
Error_Span(ns, n) == IF n = 0 THEN Panic ELSE [panic |-> FALSE, val |-> ns[n].span]
Error_RequestID(ns, n) == IF n = 0 THEN Panic ELSE [panic |-> FALSE, val |-> ns[n].requestID]

\* stackTrace.StringUntilFrame: the frames listed
RECURSIVE StringUntilFrame(_, _)
StringUntilFrame(st, deepestFrame) ==
    IF st = <<>> THEN <<>>
    ELSE IF Head(st).file = "" THEN StringUntilFrame(Tail(st), deepestFrame)
    ELSE IF Head(st) = deepestFrame THEN <<>>
    ELSE <<Head(st)>> \o StringUntilFrame(Tail(st), deepestFrame)

ZeroFrame == [file |-> "", function |-> "", line |-> 0]

\* the header of a node's block in (*Error).StackTrace
blockMessage(ns, n) ==
    IF ns[n].message # NoMessage THEN ns[n].message
    ELSE IF ns[n].err # NilErr /\ Error_Error(ns, ns[n].err) # <<>>
         THEN Error_Error(ns, ns[n].err)
         ELSE <<"Error">>

\* (*Error).StackTrace: the blocks, first block first; no block is the empty text
RECURSIVE stackBlocks(_, _, _, _)
stackBlocks(ns, visit, topFrame, blocks) ==
    IF visit = <<>> THEN blocks
    ELSE LET ee == ns[Head(visit)]
         IN  IF Len(ee.stackTrace) > 0
             THEN stackBlocks(ns, Tail(visit), ee.stackTrace[1],
                      <<[message |-> blockMessage(ns, Head(visit)),
                         frames |-> StringUntilFrame(ee.stackTrace, topFrame)]>> \o blocks)
             ELSE stackBlocks(ns, Tail(visit), topFrame, blocks)

Error_StackTrace(ns, n) == stackBlocks(ns, recursive(ns, n), ZeroFrame, <<>>)


\* an attribute of the structured view, or a section of the verbose report,
\* emitted when cond holds
Entry(cond, key, value) == IF cond THEN <<[key |-> key, value |-> value]>> ELSE <<>>

\* (*Error).LogValue for a non-nil receiver whose trace and time have been
\* resolved (in the heap ns) to trace and time
logAttrs(ns, ms, as, n, trace, time) ==
    Entry(Error_Message(ns, n) # NoMessage, "message", ns[n].message)
    \o Entry(Error_Reason(ns, n) # NIL, "reason", Error_Reason(ns, n))
    \o Entry(Error_Domain(ns, n) # NIL, "domain", Error_Domain(ns, n))
    \o Entry(MapElems(ms, ns[n].metadata) # EmptyMap, "metadata", MapElems(ms, ns[n].metadata))
    \o Entry(Error_QuotaViolations(ns, as, n) # <<>>, "quotaViolations",
             Error_QuotaViolations(ns, as, n))
    \o Entry(Error_PreconditionViolations(ns, as, n) # <<>>, "preconditionViolations",
             Error_PreconditionViolations(ns, as, n))
    \o Entry(Error_FieldViolations(ns, as, n) # <<>>, "fieldViolations",
             Error_FieldViolations(ns, as, n))
    \o Entry(ns[n].userID # NIL, "userId", ns[n].userID)
    \o Entry(ns[n].tenantID # NIL, "tenantId", ns[n].tenantID)
    \o Entry(TRUE, "trace", trace)
    \o Entry(ns[n].span # NIL, "span", ns[n].span)
    \o Entry(ns[n].requestID # NIL, "requestId", ns[n].requestID)
    \o Entry(Error_Tags(ns, as, n) # <<>>, "tags", Error_Tags(ns, as, n))
    \o Entry(time # ZeroTime, "time", time)
    \o Entry(Error_Help(ns, n) # ZeroHelp, "help", Error_Help(ns, n))
    \o Entry(Error_Resource(ns, n) # ZeroResource, "resource", Error_Resource(ns, n))
    \o Entry(Error_Localizations(ns, as, n) # <<>>, "localizations",
             Error_Localizations(ns, as, n))
    \o Entry(Error_Retry(ns, n) # ZeroRetry, "retry", Error_Retry(ns, n))
    \o Entry(Error_StackTrace(ns, n) # <<>>, "stackTrace", Error_StackTrace(ns, n))

\* *e.message, read when the resolved message is not nil
logDerefFails(ns, n) == Error_Message(ns, n) # NoMessage /\ ns[n].message = NoMessage

Error_LogValue(ns, ms, as, uuid, clk, n) ==
    IF n = 0 THEN [panic |-> FALSE, val |-> <<>>, ns |-> ns, uuid |-> uuid, clk |-> clk]
    ELSE IF logDerefFails(ns, n) THEN Panic
    ELSE LET tr == Error_Trace(ns, uuid, n)
             tm == Error_Time(tr.ns, clk, n)
         IN  [panic |-> FALSE, val |-> logAttrs(tm.ns, ms, as, n, tr.val, tm.val),
              ns |-> tm.ns, uuid |-> tr.uuid, clk |-> tm.clk]

\* (*Error).formatVerbose: the sections of the report, in order
verboseSections(ns, ms, as, n, trace, time) ==
    Entry(TRUE, "Error", Error_Error(ns, LibErr(n)))
    \o Entry(Error_Reason(ns, n) # NIL, "Reason", Error_Reason(ns, n))
    \o Entry(Error_Domain(ns, n) # NIL, "Domain", Error_Domain(ns, n))
    \o Entry(Error_Metadata(ns, ms, n) # EmptyMap, "Metadata", Error_Metadata(ns, ms, n))
    \o Entry(Error_QuotaViolations(ns, as, n) # <<>>, "QuotaViolations",
             Error_QuotaViolations(ns, as, n))
    \o Entry(Error_PreconditionViolations(ns, as, n) # <<>>, "PreconditionViolations",
             Error_PreconditionViolations(ns, as, n))
    \o Entry(Error_FieldViolations(ns, as, n) # <<>>, "FieldViolations",
             Error_FieldViolations(ns, as, n))
    \o Entry(ns[n].userID # NIL, "UserId", ns[n].userID)
    \o Entry(ns[n].tenantID # NIL, "TenantId", ns[n].tenantID)
    \o Entry(TRUE, "Trace", trace)
    \o Entry(ns[n].span # NIL, "Span", ns[n].span)
    \o Entry(ns[n].requestID # NIL, "RequestId", ns[n].requestID)
    \o Entry(Error_Tags(ns, as, n) # <<>>, "Tags", Error_Tags(ns, as, n))
    \o Entry(time # ZeroTime, "Time", time)
    \o Entry(Error_Help(ns, n) # ZeroHelp, "Help", Error_Help(ns, n))
    \o Entry(Error_Resource(ns, n) # ZeroResource, "Resource", Error_Resource(ns, n))
    \o Entry(Error_Localizations(ns, as, n) # <<>>, "Localizations",
             Error_Localizations(ns, as, n))
    \o Entry(Error_Retry(ns, n) # ZeroRetry, "Retry", Error_Retry(ns, n))
    \o Entry(Error_StackTrace(ns, n) # <<>>, "StackTrace", Error_StackTrace(ns, n))

Error_formatVerbose(ns, ms, as, uuid, clk, n) ==
    IF n = 0 THEN Panic
    ELSE LET tr == Error_Trace(ns, uuid, n)
             tm == Error_Time(tr.ns, clk, n)
         IN  [panic |-> FALSE, val |-> verboseSections(tm.ns, ms, as, n, tr.val, tm.val),
              ns |-> tm.ns, uuid |-> tr.uuid, clk |-> tm.clk]

(***************************************************************************)
(* Calls on an error value.                                                *)
(***************************************************************************)
Panicked(op, n) == [op |-> op, recv |-> n, arg |-> <<>>, val |-> <<>>, panic |-> TRUE]

IsReceiver(n) == n \in 0..Len(nodes)

\* a call that writes nothing
Read(op, n, val) ==
    /\ IsReceiver(n)
    /\ ret' = Call(op, n, <<>>, val)
    /\ UNCHANGED <<builders, nodes, built, maps, arrays, nextUUID, clock>>

ReadOwn(op, n, r) ==
    /\ IsReceiver(n)
    /\ ret' = IF r.panic THEN Panicked(op, n) ELSE Call(op, n, <<>>, r.val)
    /\ UNCHANGED <<builders, nodes, built, maps, arrays, nextUUID, clock>>

\* a call that may write the receiver's trace and time
ReadLazy(op, n, r) ==
    /\ IF r.panic
       THEN ret' = Panicked(op, n) /\ UNCHANGED <<nodes, built, nextUUID, clock>>
       ELSE /\ ret' = Call(op, n, <<>>, r.val)
            /\ nodes' = r.ns
            /\ nextUUID' = r.uuid
            /\ clock' = r.clk
    /\ UNCHANGED <<builders, maps, arrays, built>>

\* the identifiers and clock readings left allow the call
CanDraw(n) ==
    /\ IsReceiver(n)
    /\ traceDraws(nodes, n) => nextUUID <= MaxUUID
    /\ timeReads(nodes, n) => clock <= MaxClock

CallMessage(n) == Read("Error.Message", n, Error_Message(nodes, n))
CallReason(n) == Read("Error.Reason", n, Error_Reason(nodes, n))
CallDomain(n) == Read("Error.Domain", n, Error_Domain(nodes, n))
CallMetadata(n) == Read("Error.Metadata", n, Error_Metadata(nodes, maps, n))
CallQuotaViolations(n) ==
    Read("Error.QuotaViolations", n, Error_QuotaViolations(nodes, arrays, n))
CallPreconditionViolations(n) ==
    Read("Error.PreconditionViolations", n, Error_PreconditionViolations(nodes, arrays, n))
CallFieldViolations(n) ==
    Read("Error.FieldViolations", n, Error_FieldViolations(nodes, arrays, n))
CallTags(n) == Read("Error.Tags", n, Error_Tags(nodes, arrays, n))
CallHelp(n) == Read("Error.Help", n, Error_Help(nodes, n))
CallResource(n) == Read("Error.Resource", n, Error_Resource(nodes, n))
CallLocalizations(n) == Read("Error.Localizations", n, Error_Localizations(nodes, arrays, n))
CallRetry(n) == Read("Error.Retry", n, Error_Retry(nodes, n))
CallStackTrace(n) == Read("Error.StackTrace", n, Error_StackTrace(nodes, n))
CallSpan(n) == ReadOwn("Error.Span", n, Error_Span(nodes, n))
CallRequestID(n) == ReadOwn("Error.RequestID", n, Error_RequestID(nodes, n))

CallTrace(n) ==
    /\ CanDraw(n)
    /\ LET r == Error_Trace(nodes, nextUUID, n)
       IN  ReadLazy("Error.Trace", n,
                    IF r.panic THEN r ELSE r @@ [clk |-> clock])

CallTime(n) ==
    /\ CanDraw(n)
    /\ LET r == Error_Time(nodes, clock, n)
       IN  ReadLazy("Error.Time", n, IF r.panic THEN r ELSE r @@ [uuid |-> nextUUID])

CallLogValue(n) ==
    /\ CanDraw(n)
    /\ ReadLazy("Error.LogValue", n, Error_LogValue(nodes, maps, arrays, nextUUID, clock, n))

\* fmt's %+v
CallFormatVerbose(n) ==
    /\ CanDraw(n)
    /\ ReadLazy("Error.Format+v", n,
                Error_formatVerbose(nodes, maps, arrays, nextUUID, clock, n))

\* fmt's other verbs, and Error(): e.message is read first
CallError(n) ==
    ReadOwn("Error.Error", n,
            IF n = 0 THEN Panic ELSE [panic |-> FALSE, val |-> Error_Error(nodes, LibErr(n))])

\* errors.Is(err, target) for err the node n (or nil) and target a sentinel
CallIs(n, target) ==
    /\ IsReceiver(n)
    /\ ret' = Call("errors.Is", n, <<target>>,
                   ErrorsIs(nodes, IF n = 0 THEN NilErr ELSE LibErr(n), target))
    /\ UNCHANGED <<builders, nodes, built, maps, arrays, nextUUID, clock>>


(***************************************************************************)
(* Inputs.                                                                 *)
(***************************************************************************)
Helps == {[Description |-> "x", URL |-> "y"]}
Resources == {[Type |-> "x", Name |-> "y", Owner |-> "", Description |-> ""]}
Retries == {[Delay |-> 1]}
Localizations == {[Locale |-> "x", Message |-> "x"]}

Init ==
    /\ builders = <<>>
    /\ nodes = <<>>
    /\ built = <<>>
    /\ maps = <<>>
    /\ arrays = <<>>
    /\ nextUUID = 1
    /\ clock = 1
    /\ ret = Call("init", 0, <<>>, 0)

\* every setter, on any builder value obtained so far
Setters ==
    \E i \in 1..Len(builders) :
        \/ \E v \in Str : ErrorBuilder_Reason(i, v)
        \/ \E v \in {"x"} : ErrorBuilder_Domain(i, v)
        \/ \E k \in Str, v \in {"x"} : ErrorBuilder_WithMetadata(i, k, v)
        \/ \E v \in {"x"} : ErrorBuilder_WithQuotaViolation(i, v, "x")
        \/ \E v \in {"x"} : ErrorBuilder_WithPreconditionViolation(i, v, "x")
        \/ \E v \in Str : ErrorBuilder_WithFieldViolation(i, v, "x")
        \/ \E v \in {"x"} : ErrorBuilder_UserID(i, v)
        \/ \E v \in {"x"} : ErrorBuilder_TenantID(i, v)
        \/ \E v \in {"x"} : ErrorBuilder_Trace(i, v)
        \/ \E v \in {"x"} : ErrorBuilder_Span(i, v)
        \/ \E v \in {"x"} : ErrorBuilder_RequestID(i, v)
        \/ \E v \in Str : ErrorBuilder_WithTag(i, v)
        \/ \E v \in Helps : ErrorBuilder_Help(i, v)
        \/ \E v \in Resources : ErrorBuilder_Resource(i, v)
        \/ \E v \in Localizations : ErrorBuilder_WithLocalization(i, v)
        \/ \E v \in Retries : ErrorBuilder_Retry(i, v)

\* the error values a call site holds: nil, the sentinels, the nodes built
Errs == {NilErr} \cup {SentinelErr(x) : x \in Sentinels} \cup {LibErr(n) : n \in 1..Len(nodes)}
Messages == {"m"}
Formats == {"f"}
\* the argument lists of Join
JoinArgs == {<<>>} \cup {<<a>> : a \in Errs} \cup {<<a, b>> : a \in Errs, b \in {NilErr, SentinelErr("AnError")}}
                   \cup {<<SentinelErr("AnError"), b>> : b \in Errs}

\* every terminal operation, on any builder value obtained so far
Terminals ==
    \E i \in 1..Len(builders), stack \in CallStacks :
        \/ \E m \in Messages : ErrorBuilder_Error(i, m, stack)
        \/ \E f \in Formats, w \in Errs : ErrorBuilder_Errorf(i, f, w, stack)
        \/ \E err \in Errs : ErrorBuilder_Wrap(i, err, stack)
        \/ \E err \in Errs, f \in Formats, w \in {NilErr, SentinelErr("AnError")} :
               ErrorBuilder_Wrapf(i, err, f, w, stack)
        \/ \E errs \in JoinArgs : ErrorBuilder_Join(i, errs, stack)

\* every accessor and rendering, on any node built so far and on the nil *Error
Calls ==
    \E n \in 0..Len(nodes) :
        \/ CallMessage(n)
        \/ CallReason(n)
        \/ CallDomain(n)
        \/ CallMetadata(n)
        \/ CallQuotaViolations(n)
        \/ CallPreconditionViolations(n)
        \/ CallFieldViolations(n)
        \/ CallTrace(n)
        \/ CallSpan(n)
        \/ CallRequestID(n)
        \/ CallTags(n)
        \/ CallTime(n)
        \/ CallHelp(n)
        \/ CallResource(n)
        \/ CallLocalizations(n)
        \/ CallRetry(n)
        \/ CallStackTrace(n)
        \/ CallLogValue(n)
        \/ CallFormatVerbose(n)
        \/ CallError(n)

Checks == \E n \in 0..Len(nodes), x \in Sentinels : CallIs(n, SentinelErr(x))

Next == NewBuilder \/ Setters \/ Terminals \/ Calls \/ Checks

Spec == Init /\ [][Next]_vars

\* the builder alone: every setter on every builder value
NextBuilder == NewBuilder \/ Setters

SpecBuilder == Init /\ [][NextBuilder]_vars

\* the builder values and nodes of the specifications that call every
\* terminal operation or every accessor
MaxFewBuilders == 2
MaxFewNodes == 2

\* Construction and identity: builders with and without a span, the terminal
\* operations on nil, on the sentinel fs.ErrExist and on the node built last,
\* and the identity check against the sentinel on the nil *Error and on the
\* node built last.
ErrExist == SentinelErr("ErrExist")
AnError == SentinelErr("AnError")
LastNode == IF nodes = <<>> THEN {} ELSE {LibErr(Len(nodes))}

SettersOfTerminal == \E i \in 1..Len(builders), v \in {"x"} : ErrorBuilder_Span(i, v)

TerminalsOfTerminal ==
    \E i \in 1..Len(builders), stack \in CallStacks :
        \/ \E m \in Messages : ErrorBuilder_Error(i, m, stack)
        \/ \E f \in Formats, w \in {NilErr, ErrExist} \cup LastNode :
               ErrorBuilder_Errorf(i, f, w, stack)
        \/ \E err \in {NilErr, ErrExist} \cup LastNode : ErrorBuilder_Wrap(i, err, stack)
        \/ \E err \in {NilErr, ErrExist}, f \in Formats, w \in {AnError} :
               ErrorBuilder_Wrapf(i, err, f, w, stack)
        \/ \E errs \in {<<>>, <<NilErr, NilErr>>, <<ErrExist, AnError>>,
                        <<AnError, ErrExist>>} :
               ErrorBuilder_Join(i, errs, stack)

ChecksOfTerminal == \E n \in {0, Len(nodes)} : CallIs(n, ErrExist)

NextTerminal ==
    \/ Len(builders) < MaxFewBuilders /\ (NewBuilder \/ SettersOfTerminal)
    \/ Len(nodes) < MaxFewNodes /\ TerminalsOfTerminal
    \/ ChecksOfTerminal

SpecTerminal == Init /\ [][NextTerminal]_vars

\* Resolution along a chain: one fluent chain of builders that set a reason,
\* tags and localizations, each builder value used as soon as it is obtained;
\* nodes built with Error and Wrap around a sentinel or the node built last,
\* and the reads of the three on the nil *Error and on the node built last.
SettersOfResolve ==
    \E i \in {Len(builders)} :
        \/ \E v \in Str : ErrorBuilder_Reason(i, v)
        \/ \E v \in Str : ErrorBuilder_WithTag(i, v)
        \/ \E v \in Localizations : ErrorBuilder_WithLocalization(i, v)

TerminalsOfResolve ==
    \E i \in {Len(builders)}, stack \in CallStacks :
        \/ \E m \in Messages : ErrorBuilder_Error(i, m, stack)
        \/ \E err \in {ErrExist} \cup LastNode : ErrorBuilder_Wrap(i, err, stack)

CallsOfResolve ==
    \E n \in {0, Len(nodes)} :
        \/ CallReason(n)
        \/ CallTags(n)
        \/ CallLocalizations(n)

NextResolve ==
    \/ builders = <<>> /\ NewBuilder
    \/ SettersOfResolve
    \/ Len(nodes) < MaxFewNodes /\ TerminalsOfResolve
    \/ CallsOfResolve

SpecResolve == Init /\ [][NextResolve]_vars

\* Every accessor and rendering, on the nil *Error and on the node built last.

SettersOfRead ==
    \E i \in 1..Len(builders), v \in {"x"} :
        \/ ErrorBuilder_Reason(i, v)
        \/ ErrorBuilder_Trace(i, v)
        \/ ErrorBuilder_RequestID(i, v)
        \/ ErrorBuilder_WithTag(i, v)

TerminalsOfRead ==
    \E i \in 1..Len(builders), stack \in CallStacks :
        \/ \E m \in Messages : ErrorBuilder_Error(i, m, stack)
        \/ \E err \in {ErrExist} \cup LastNode : ErrorBuilder_Wrap(i, err, stack)

CallsOfRead ==
    \E n \in {0, Len(nodes)} :
        \/ CallMessage(n)
        \/ CallReason(n)
        \/ CallDomain(n)
        \/ CallMetadata(n)
        \/ CallQuotaViolations(n)
        \/ CallPreconditionViolations(n)
        \/ CallFieldViolations(n)
        \/ CallTrace(n)
        \/ CallSpan(n)
        \/ CallRequestID(n)
        \/ CallTags(n)
        \/ CallTime(n)
        \/ CallHelp(n)
        \/ CallResource(n)
        \/ CallLocalizations(n)
        \/ CallRetry(n)
        \/ CallStackTrace(n)
        \/ CallLogValue(n)
        \/ CallFormatVerbose(n)
        \/ CallError(n)

NextRead ==
    \/ Len(builders) < MaxFewBuilders /\ (NewBuilder \/ SettersOfRead)
    \/ Len(nodes) < MaxFewNodes /\ TerminalsOfRead
    \/ CallsOfRead

SpecRead == Init /\ [][NextRead]_vars

\* Summary rendering: nodes built by every terminal operation from one builder,
\* with and without a message, around nil, a sentinel or the node built last,
\* and Error() on every node.
TerminalsOfRender ==
    \E i \in 1..Len(builders), stack \in CallStacks :
        \/ \E m \in Messages : ErrorBuilder_Error(i, m, stack)
        \/ \E f \in Formats, w \in {NilErr, ErrExist} \cup LastNode :
               ErrorBuilder_Errorf(i, f, w, stack)
        \/ \E err \in {NilErr, ErrExist} \cup LastNode : ErrorBuilder_Wrap(i, err, stack)
        \/ \E err \in {ErrExist} \cup LastNode, f \in Formats, w \in {NilErr, AnError} :
               ErrorBuilder_Wrapf(i, err, f, w, stack)
        \/ \E errs \in {<<ErrExist>>, <<ErrExist, AnError>>} \cup {<<e>> : e \in LastNode} :
               ErrorBuilder_Join(i, errs, stack)

CallsOfRender == \E n \in 1..Len(nodes) : CallError(n)

NextRender ==
    \/ builders = <<>> /\ NewBuilder
    \/ Len(nodes) < MaxFewNodes /\ TerminalsOfRender
    \/ CallsOfRender

SpecRender == Init /\ [][NextRender]_vars

\* Foreign causes in a chain: one fluent chain of builders that set a reason
\* and tags, nodes built from any of them with Error, with Errorf around a
\* sentinel or the node built last, with Wrap and Join around the node built
\* last, and the reads of the reason and the tags on the node built last.
SettersOfForeign ==
    \E i \in {Len(builders)} :
        \/ \E v \in {"x"} : ErrorBuilder_Reason(i, v)
        \/ \E v \in Str : ErrorBuilder_WithTag(i, v)

TerminalsOfForeign ==
    \E i \in 1..Len(builders), stack \in CallStacks :
        \/ \E m \in Messages : ErrorBuilder_Error(i, m, stack)
        \/ \E f \in Formats, w \in {ErrExist} \cup LastNode :
               ErrorBuilder_Errorf(i, f, w, stack)
        \/ \E err \in LastNode : ErrorBuilder_Wrap(i, err, stack)
        \/ \E errs \in {<<AnError, e>> : e \in LastNode} : ErrorBuilder_Join(i, errs, stack)

CallsOfForeign == \E n \in {Len(nodes)} \ {0} : CallReason(n) \/ CallTags(n)

NextForeign ==
    \/ builders = <<>> /\ NewBuilder
    \/ SettersOfForeign
    \/ Len(nodes) < MaxFewNodes /\ TerminalsOfForeign
    \/ CallsOfForeign

SpecForeign == Init /\ [][NextForeign]_vars

\* Stack capture: newStacktrace under call stacks of every mix of user, library,
\* example, test and runtime frames, under the stack of TestStackTrace, and
\* under stacks about StackTraceMaxDepth deep.
MaxStack == 3
MaxOver == 2

\* the frame of newStacktrace itself, runtime.Caller(0)
SelfFrame == Frame("errors/stack_trace.go", "newStacktrace", 31, FALSE, TRUE, FALSE, FALSE)

\* the files a frame may be in, with what the filter reads off each
FrameKinds ==
    {[file |-> "app/main.go", isGoPkg |-> FALSE, isThisPkg |-> FALSE,
      isExamplePkg |-> FALSE, isTestPkg |-> FALSE],
     [file |-> "errors/builder.go", isGoPkg |-> FALSE, isThisPkg |-> TRUE,
      isExamplePkg |-> FALSE, isTestPkg |-> FALSE],
     [file |-> "errors/examples/main.go", isGoPkg |-> FALSE, isThisPkg |-> TRUE,
      isExamplePkg |-> TRUE, isTestPkg |-> FALSE],
     [file |-> "errors/stack_trace_test.go", isGoPkg |-> FALSE, isThisPkg |-> TRUE,
      isExamplePkg |-> FALSE, isTestPkg |-> TRUE],
     [file |-> "goroot/runtime/proc.go", isGoPkg |-> TRUE, isThisPkg |-> FALSE,
      isExamplePkg |-> FALSE, isTestPkg |-> FALSE]}

\* the j-th caller, in a file of kind k
KindFrame(k, j) ==
    Frame(k.file, "call", j, k.isGoPkg, k.isThisPkg, k.isExamplePkg, k.isTestPkg)

ShortStacks ==
    UNION {{<<SelfFrame>> \o [j \in 1..n |-> KindFrame(ks[j], j)] : ks \in [1..n -> FrameKinds]}
           : n \in 0..MaxStack}

\* n nested calls in user code, the innermost of which captures
NestedStack(n) ==
    <<SelfFrame>>
    \o [j \in 1..(n + 1) |-> Frame("app/main.go", "call", j, FALSE, FALSE, FALSE, FALSE)]
    \o <<Frame("goroot/runtime/proc.go", "main", 250, TRUE, FALSE, FALSE, FALSE)>>

DeepStacks ==
    {NestedStack(n) : n \in (StackTraceMaxDepth - 1 - MaxOver)..(StackTraceMaxDepth - 1 + MaxOver)}

\* the call stack of TestStackTrace: a calls b calls ... f calls newStacktrace
TestFrame(function, line) ==
    Frame("errors/stack_trace_test.go", function, line, FALSE, TRUE, FALSE, TRUE)

TestStack ==
    <<SelfFrame, TestFrame("f", 32), TestFrame("e", 28), TestFrame("d", 24),
      TestFrame("c", 20), TestFrame("b", 16), TestFrame("a", 12),
      TestFrame("TestStackTrace", 38),
      Frame("goroot/testing/testing.go", "tRunner", 1690, TRUE, FALSE, FALSE, FALSE),
      Frame("goroot/runtime/asm.s", "goexit", 1700, TRUE, FALSE, FALSE, FALSE)>>

CallNewStacktrace(stack) ==
    /\ ret' = Call("newStacktrace", 0, <<stack>>, newStacktrace(stack))
    /\ UNCHANGED <<builders, nodes, built, maps, arrays, nextUUID, clock>>

NextCapture ==
    \E stack \in ShortStacks \cup DeepStacks \cup {TestStack} : CallNewStacktrace(stack)

SpecCapture == Init /\ [][NextCapture]_vars

(***************************************************************************)
(* C1.  Setters are copy-on-write.                                         *)
(***************************************************************************)
SetterOps == {"ErrorBuilder.Reason", "ErrorBuilder.Domain", "ErrorBuilder.WithMetadata", "ErrorBuilder.WithQuotaViolation",
              "ErrorBuilder.WithPreconditionViolation", "ErrorBuilder.WithFieldViolation", "ErrorBuilder.UserID", "ErrorBuilder.TenantID",
              "ErrorBuilder.Trace", "ErrorBuilder.Span", "ErrorBuilder.RequestID", "ErrorBuilder.WithTag", "ErrorBuilder.Help", "ErrorBuilder.Resource",
              "ErrorBuilder.WithLocalization", "ErrorBuilder.Retry"}

\* the value a setter is to return: the receiver's value with the change applied
Applied(v, op, arg) ==
    CASE op = "ErrorBuilder.Reason" -> [v EXCEPT !.reason = arg[1]]
      [] op = "ErrorBuilder.Domain" -> [v EXCEPT !.domain = arg[1]]
      [] op = "ErrorBuilder.WithMetadata" -> [v EXCEPT !.metadata = MapSet(@, arg[1], arg[2])]
      [] op = "ErrorBuilder.WithQuotaViolation" -> [v EXCEPT !.quotaViolations = Append(@, arg[1])]
      [] op = "ErrorBuilder.WithPreconditionViolation" ->
             [v EXCEPT !.preconditionViolations = Append(@, arg[1])]
      [] op = "ErrorBuilder.WithFieldViolation" -> [v EXCEPT !.fieldViolations = Append(@, arg[1])]
      [] op = "ErrorBuilder.UserID" -> [v EXCEPT !.userID = arg[1]]
      [] op = "ErrorBuilder.TenantID" -> [v EXCEPT !.tenantID = arg[1]]
      [] op = "ErrorBuilder.Trace" -> [v EXCEPT !.trace = arg[1]]
      [] op = "ErrorBuilder.Span" -> [v EXCEPT !.span = arg[1]]
      [] op = "ErrorBuilder.RequestID" -> [v EXCEPT !.requestID = arg[1]]
      [] op = "ErrorBuilder.WithTag" -> [v EXCEPT !.tags = Append(@, arg[1])]
      [] op = "ErrorBuilder.Help" -> [v EXCEPT !.help = arg[1]]
      [] op = "ErrorBuilder.Resource" -> [v EXCEPT !.resource = arg[1]]
      [] op = "ErrorBuilder.WithLocalization" -> [v EXCEPT !.localizations = Append(@, arg[1])]
      [] op = "ErrorBuilder.Retry" -> [v EXCEPT !.retry = arg[1]]

\* C1: a setter call returns a new builder value with the change applied and
\* leaves every builder value obtained before the call reading exactly as it
\* did before the call.
C1_SettersCopyOnWrite ==
    [][Len(builders') = Len(builders) + 1 /\ ret'.op \in SetterOps =>
         /\ View(builders'[ret'.val], maps', arrays')
              = Applied(View(builders[ret'.recv], maps, arrays), ret'.op, ret'.arg)
         /\ \A j \in 1..Len(builders) :
              View(builders'[j], maps', arrays') = View(builders[j], maps, arrays)]_vars

(***************************************************************************)
(* Chains, read off the heap without the walk of the accessors.            *)
(***************************************************************************)
\* the library nodes of the chain of n, outermost first: n, its cause, the
\* cause of its cause, ... as long as the cause is itself a *Error
RECURSIVE ChainOf(_, _)
ChainOf(ns, n) ==
    IF Kind(ns[n].err) = "lib" THEN <<n>> \o ChainOf(ns, ns[n].err[2]) ELSE <<n>>

InnermostOf(ns, n) == ChainOf(ns, n)[Len(ChainOf(ns, n))]

\* the chain ends in no cause or in a foreign sentinel
PlainChain(ns, n) == Kind(ns[InnermostOf(ns, n)].err) \in {"nil", "sentinel"}

\* the tags of the nodes of a chain, one after the other
RECURSIVE TagsAlong(_, _, _)
TagsAlong(ns, as, chain) ==
    IF chain = <<>> THEN <<>>
    ELSE SliceElems(as, ns[Head(chain)].tags) \o TagsAlong(ns, as, Tail(chain))

\* seq without the elements that occur earlier in it
RECURSIVE Pick(_, _, _)
Pick(seq, keep, j) ==
    IF j > Len(seq) THEN <<>>
    ELSE (IF j \in keep THEN <<seq[j]>> ELSE <<>>) \o Pick(seq, keep, j + 1)
FirstSeen(seq) ==
    Pick(seq, {j \in 1..Len(seq) : \A k \in 1..(j - 1) : seq[k] # seq[j]}, 1)

(***************************************************************************)
(* C2.  Innermost-wins.                                                    *)
(***************************************************************************)
\* C2: when the innermost library node of a chain has a single-valued
\* attribute set, reading the attribute from the outermost node returns the
\* innermost node's value, whatever the outer nodes set.
C2_InnermostWins ==
    [][ret'.recv # 0 /\ ret'.op \in {"Error.Reason", "Error.Localizations"}
         /\ PlainChain(nodes', ret'.recv) =>
         LET c == nodes'[InnermostOf(nodes', ret'.recv)]
         IN  /\ ret'.op = "Error.Reason" /\ c.reason # NIL => ret'.val = c.reason
             /\ ret'.op = "Error.Localizations" /\ c.localizations.len > 0 =>
                    ret'.val = SliceElems(arrays', c.localizations)]_vars

\* a Reason() read on a chain of two nodes whose innermost node set "x" and
\* whose outermost node set "y"
C2_Witness ==
    /\ ret.op = "Error.Reason" /\ ret.recv # 0 /\ ret.val = "x"
    /\ Len(ChainOf(nodes, ret.recv)) = 2
    /\ nodes[ret.recv].reason = "y"
    /\ nodes[InnermostOf(nodes, ret.recv)].reason = "x"

(***************************************************************************)
(* C3.  Inheritance from whichever node set the attribute.                 *)
(***************************************************************************)
\* the value of the innermost node of the chain that has the field set
RECURSIVE InnermostSet(_, _, _, _)
InnermostSet(ns, chain, field, zero) ==
    IF chain = <<>> THEN zero
    ELSE IF InnermostSet(ns, Tail(chain), field, zero) # zero
         THEN InnermostSet(ns, Tail(chain), field, zero)
         ELSE ns[Head(chain)][field]

\* C3: a single-valued attribute read from the outermost node is the value of
\* the innermost node of the chain that has it set, so a value set only on a
\* wrapping node is returned.
C3_InheritedFromSetter ==
    ret.op = "Error.Reason" /\ ret.recv # 0 /\ PlainChain(nodes, ret.recv) =>
        ret.val = InnermostSet(nodes, ChainOf(nodes, ret.recv), "reason", NIL)

(***************************************************************************)
(* C4.  Identity against a wrapped sentinel.                               *)
(***************************************************************************)
\* the node n was built from the sentinel s: by Wrap(s), Wrapf(s, ...),
\* Errorf with s as the %w operand, Join with s among the errors, or by Wrap
\* around a node built from s
RECURSIVE BuiltFrom(_, _)
BuiltFrom(n, s) ==
    LET b == built[n]
    IN  CASE b.op \in {"ErrorBuilder.Wrap", "ErrorBuilder.Wrapf"} ->
               \/ b.arg[1] = s
               \/ b.op = "ErrorBuilder.Wrap" /\ Kind(b.arg[1]) = "lib" /\ BuiltFrom(b.arg[1][2], s)
          [] b.op = "ErrorBuilder.Errorf" -> b.arg[2] = s
          [] b.op = "ErrorBuilder.Join" -> \E j \in 1..Len(b.arg[1]) : b.arg[1][j] = s
          [] OTHER -> FALSE

\* C4: Is(e, s) is true of every error e built from the sentinel s.
C4_IsFindsSentinel ==
    ret.op = "errors.Is" /\ ret.recv # 0 /\ BuiltFrom(ret.recv, ret.arg[1]) => ret.val = TRUE

\* an identity check on a node that wraps a node that joined AnError and the
\* sentinel, in that order
C4_Witness ==
    /\ ret.op = "errors.Is" /\ ret.recv # 0 /\ ret.val = TRUE
    /\ built[ret.recv].op = "ErrorBuilder.Wrap"
    /\ Kind(built[ret.recv].arg[1]) = "lib"
    /\ built[built[ret.recv].arg[1][2]].op = "ErrorBuilder.Join"
    /\ built[built[ret.recv].arg[1][2]].arg[1] = <<AnError, ErrExist>>

(***************************************************************************)
(* C5.  Wrapping nil.                                                      *)
(***************************************************************************)
\* a call of Wrap or Wrapf on nil, or of Join on no error or nil errors only
WrapsNothing(r) ==
    CASE r.op \in {"ErrorBuilder.Wrap", "ErrorBuilder.Wrapf"} -> r.arg[1] = NilErr
      [] r.op = "ErrorBuilder.Join" -> \A j \in 1..Len(r.arg[1]) : r.arg[1][j] = NilErr
      [] OTHER -> FALSE

\* C5: Wrap(nil), Wrapf(nil, ...) and Join of no error return nil on every
\* builder; no node is allocated and no identifier is drawn.
C5_WrapNilIsNil ==
    [][WrapsNothing(ret') =>
         ret'.val = NilErr /\ nodes' = nodes /\ nextUUID' = nextUUID]_vars

\* Wrapf(nil, ...) called on a builder on which a span was set, after a node
\* was built
C5_Witness ==
    /\ ret.op = "ErrorBuilder.Wrapf" /\ WrapsNothing(ret) /\ ret.val = NilErr
    /\ builders[ret.recv].span = "x"
    /\ nodes # <<>>

(***************************************************************************)
(* C6.  Nodes are immutable but for trace and time.                        *)
(***************************************************************************)
\* C6: no step changes what a node built earlier reads as, except that its
\* trace may go from nil to set, and its time from zero to set, once.
C6_NodesImmutable ==
    [][\A n \in 1..Len(nodes) :
         LET before == View(nodes[n], maps, arrays)
             after == View(nodes'[n], maps', arrays')
         IN  /\ [after EXCEPT !.trace = before.trace, !.time = before.time] = before
             /\ before.trace # NIL => after.trace = before.trace
             /\ before.time # ZeroTime => after.time = before.time]_vars

(***************************************************************************)
(* C7.  Round trip.                                                        *)
(***************************************************************************)
\* the value of the entry of a structured view or report under one of keys
HasEntry(val, keys) == \E j \in 1..Len(val) : val[j].key \in keys
EntryValue(val, keys) == val[CHOOSE j \in 1..Len(val) : val[j].key \in keys].value

\* the text a terminal operation was given as the node's message
MessageGiven(b) ==
    CASE b.op = "ErrorBuilder.Error" -> <<b.arg[1]>>
      [] b.op = "ErrorBuilder.Errorf" -> FmtErrorf(nodes, b.arg[1], b.arg[2])[2]
      [] b.op = "ErrorBuilder.Wrapf" -> FmtErrorf(nodes, b.arg[2], b.arg[3])[2]
      [] OTHER -> NoMessage

\* C7: an attribute set on the builder, and the message given to the terminal
\* operation, read back from the node as they were set.
C7_RoundTrip ==
    ret.recv # 0 /\ ~ret.panic =>
        LET b == built[ret.recv]
            set == b.from
        IN  /\ ret.op = "Error.Message" /\ MessageGiven(b) # NoMessage =>
                   ret.val = MessageGiven(b)
            /\ ret.op = "Error.Reason" /\ set.reason # NIL => ret.val = set.reason
            /\ ret.op = "Error.Domain" /\ set.domain # NIL => ret.val = set.domain
            /\ ret.op = "Error.Metadata" /\ set.metadata # EmptyMap => ret.val = set.metadata
            /\ ret.op = "Error.QuotaViolations" /\ set.quotaViolations # <<>> =>
                   ret.val = set.quotaViolations
            /\ ret.op = "Error.PreconditionViolations" /\ set.preconditionViolations # <<>> =>
                   ret.val = set.preconditionViolations
            /\ ret.op = "Error.FieldViolations" /\ set.fieldViolations # <<>> =>
                   ret.val = set.fieldViolations
            /\ ret.op = "Error.LogValue" /\ set.userID # NIL =>
                   HasEntry(ret.val, {"userId"}) /\ EntryValue(ret.val, {"userId"}) = set.userID
            /\ ret.op = "Error.LogValue" /\ set.tenantID # NIL =>
                   HasEntry(ret.val, {"tenantId"})
                   /\ EntryValue(ret.val, {"tenantId"}) = set.tenantID
            /\ ret.op = "Error.Trace" /\ set.trace # NIL => ret.val = set.trace
            /\ ret.op = "Error.Span" /\ set.span # NIL => ret.val = set.span
            /\ ret.op = "Error.RequestID" /\ set.requestID # NIL => ret.val = set.requestID
            /\ ret.op = "Error.Tags" /\ set.tags # <<>> => ret.val = set.tags
            /\ ret.op = "Error.Help" /\ set.help # ZeroHelp => ret.val = set.help
            /\ ret.op = "Error.Resource" /\ set.resource # ZeroResource =>
                   ret.val = set.resource
            /\ ret.op = "Error.Localizations" /\ set.localizations # <<>> =>
                   ret.val = set.localizations
            /\ ret.op = "Error.Retry" /\ set.retry # ZeroRetry => ret.val = set.retry

TraceReaders == {"Error.Trace", "Error.LogValue", "Error.Format+v"}
TraceRead(r) ==
    IF r.op = "Error.Trace" THEN r.val ELSE EntryValue(r.val, {"trace", "Trace"})

\* C9: two reads of the trace of the same error, one right after the other,
\* return the same identifier.
C9_TraceCached ==
    [][ret.op \in TraceReaders /\ ret'.op \in TraceReaders
         /\ ret.recv # 0 /\ ret'.recv = ret.recv /\ ~ret.panic /\ ~ret'.panic =>
         TraceRead(ret') = TraceRead(ret)]_vars

(***************************************************************************)
(* C10.  Accessors on the nil *Error.                                      *)
(***************************************************************************)
Accessors == {"Error.Message", "Error.Reason", "Error.Domain", "Error.Metadata",
              "Error.QuotaViolations", "Error.PreconditionViolations",
              "Error.FieldViolations", "Error.Trace", "Error.Span", "Error.RequestID",
              "Error.Tags", "Error.Time", "Error.Help", "Error.Resource",
              "Error.Localizations", "Error.Retry", "Error.StackTrace", "Error.LogValue"}

\* C10: no accessor fails on the nil *Error.
C10_NilReceiverReads == ret.op \in Accessors /\ ret.recv = 0 => ~ret.panic

(***************************************************************************)
(* C11.  The structured view is total.                                     *)
(***************************************************************************)
\* C11: LogValue() on a node completes, and it has a "message" entry, holding
\* the message resolved along the chain, exactly when that message is present.
C11_LogValueTotal ==
    ret.op = "Error.LogValue" /\ ret.recv # 0 =>
        /\ ~ret.panic
        /\ HasEntry(ret.val, {"message"}) <=> Error_Message(nodes, ret.recv) # NoMessage
        /\ HasEntry(ret.val, {"message"}) =>
               EntryValue(ret.val, {"message"}) = Error_Message(nodes, ret.recv)

(***************************************************************************)
(* C12.  The creation time.                                                *)
(***************************************************************************)
\* the construction times of the nodes of the chain of n: the times of the
\* builders they were built from
TimesOfChain(n) == {built[ChainOf(nodes, n)[j]].from.time : j \in 1..Len(ChainOf(nodes, n))}

\* C12: Time() on a node returns a construction time of its chain, not the
\* time of the read.
C12_TimeOfConstruction ==
    ret.op = "Error.Time" /\ ret.recv # 0 /\ ~ret.panic => ret.val \in TimesOfChain(ret.recv)

(***************************************************************************)
(* C13.  The summary rendering.                                            *)
(***************************************************************************)
\* C13: Error() on a node is its message, then ": " when it has both a message
\* and a cause, then the cause's rendered text; the message alone when there
\* is no cause, the cause's text alone when there is no message.
C13_SummaryRendering ==
    ret.op = "Error.Error" /\ ret.recv # 0 /\ ~ret.panic =>
        LET e == nodes[ret.recv]
            cause == Error_Error(nodes, e.err)
        IN  ret.val = CASE e.message # NoMessage /\ e.err # NilErr ->
                             e.message \o <<Separator>> \o cause
                        [] e.message # NoMessage /\ e.err = NilErr -> e.message
                        [] e.message = NoMessage /\ e.err # NilErr -> cause
                        [] OTHER -> <<>>

\* Error() on a node with a message around a node with a message
C13_Witness ==
    /\ ret.op = "Error.Error" /\ ret.recv # 0 /\ ~ret.panic
    /\ built[ret.recv].op = "ErrorBuilder.Wrapf"
    /\ Kind(nodes[ret.recv].err) = "lib"
    /\ ret.val = <<"f", Separator, "m">>

(***************************************************************************)
(* C14.  Stack capture.                                                    *)
(***************************************************************************)
\* a frame the capture is to keep: not of the host runtime, and not of a file
\* of this library other than its examples and tests
Retained(f) == ~f.isGoPkg /\ ~(f.isThisPkg /\ ~f.isExamplePkg /\ ~f.isTestPkg)

RetainedOf(stack) ==
    LET kept == SelectSeq(stack, Retained)
    IN  [j \in 1..Len(kept) |->
            [file |-> kept[j].file, function |-> kept[j].function, line |-> kept[j].line]]

\* the nested calls above newStacktrace in a stack of user code
IsNested(stack) == \E n \in 0..(Len(stack) - 3) : stack = NestedStack(n)

\* C14: the capture is the retained frames of the call stack, innermost first,
\* cut to the first StackTraceMaxDepth of them; under n nested calls none of
\* which is filtered it is n + 1 frames, or StackTraceMaxDepth if that is less.
C14_CaptureRetainsCallers ==
    ret.op = "newStacktrace" =>
        LET stack == ret.arg[1]
            kept == RetainedOf(stack)
        IN  /\ Len(ret.val) <= StackTraceMaxDepth
            /\ ret.val = IF Len(kept) <= StackTraceMaxDepth THEN kept
                         ELSE SubSeq(kept, 1, StackTraceMaxDepth)
            /\ IsNested(stack) =>
                   /\ Len(ret.val) = IF Len(stack) - 2 <= StackTraceMaxDepth
                                     THEN Len(stack) - 2 ELSE StackTraceMaxDepth
                   /\ \A j \in 1..Len(ret.val) : ret.val[j].line = j

\* the capture of TestStackTrace: seven frames, f first
C14_Witness ==
    /\ ret.op = "newStacktrace" /\ ret.arg[1] = TestStack
    /\ [j \in 1..Len(ret.val) |-> ret.val[j].function]
           = <<"f", "e", "d", "c", "b", "a", "TestStackTrace">>

(***************************************************************************)
(* C15.  Foreign causes in a chain.                                        *)
(***************************************************************************)
\* the first library node in the unwrap tree of an error, depth first; 0 when
\* there is none
RECURSIVE FirstNodeIn(_)
FirstNodeIn(err) ==
    CASE Kind(err) = "lib" -> err[2]
      [] Kind(err) = "fmt" /\ err[3] # NilErr -> FirstNodeIn(err[3])
      [] Kind(err) = "join" /\ (\E j \in 1..Len(err[2]) : FirstNodeIn(err[2][j]) # 0) ->
           FirstNodeIn(err[2][CHOOSE j \in 1..Len(err[2]) :
                                 /\ FirstNodeIn(err[2][j]) # 0
                                 /\ \A k \in 1..(j - 1) : FirstNodeIn(err[2][k]) = 0])
      [] OTHER -> 0

\* the nodes of a chain when the walk goes on through foreign errors
RECURSIVE ThroughChain(_, _)
ThroughChain(ns, n) ==
    IF FirstNodeIn(ns[n].err) = 0 THEN <<n>>
    ELSE <<n>> \o ThroughChain(ns, FirstNodeIn(ns[n].err))

\* a node whose direct cause is a foreign error that wraps a library node
ForeignOverNode(ns, n) == Kind(ns[n].err) \in {"fmt", "join"} /\ FirstNodeIn(ns[n].err) # 0

====
